---- MODULE Spec2Model ----
(***************************************************************************)
(* A model of BatchGenerator.generate (src/batch_gen.py): the shuffled     *)
(* cursor over the dataset, the per-image transform stages with their box  *)
(* remapping and clip-and-filter policy, the random-crop retry loop, the   *)
(* removal of images whose crop failed, and the yield.                     *)
(* A file that cannot be decoded raises out of the decode loop.  A second  *)
(* generator of the same object is a suspended frame that Switch resumes:  *)
(* the two share self.filenames and self.labels.                           *)
(*                                                                         *)
(* Pixels are not modelled: an image is the file it was decoded from and   *)
(* its extents.  A box is a record with the five columns of                *)
(* box_output_format.  Probabilities and include_thresh are held as        *)
(* numerators over 2 (0, 1/2, 1), which floats represent exactly.          *)
(* astype(np.int) is the conversion to int (np.int is an alias of int in   *)
(* the NumPy releases that have it).  The float product x * (new / old) of *)
(* the resize remap, truncated, equals the exact quotient truncated for    *)
(* all extents and coordinates used here.                                  *)
(***************************************************************************)
EXTENDS Integers, Sequences, FiniteSets, TLC

\* ------------------------------------------------------------------ bounds

\* Largest dataset (number of image files) of the cycling specification.
MaxData == 3

\* Largest batch_size.
MaxBatch == 2

\* Largest max_trials of random_crop.
MaxTrials == 2

\* Extents of the images on disk.
ImgH == 3

ImgW == 4

\* ------------------------------------------------------------- small helpers

\* An argument left at its default None; a tuple argument otherwise.
None == <<>>

\* A probability argument that is None or 0.0, both falsy; a brightness or
\* scale tuple is held by its prob, and prob 0 never passes the gate.
Off == 0

Min(a, b) == IF a < b THEN a ELSE b

\* ceil(a / b) for a >= 0, b >= 1
CeilDiv(a, b) == (a + b - 1) \div b

\* The conversion as a floor, which differs on negative quotients.
FloorDiv(a, b) == a \div b

\* float -> int conversion of astype(int): truncation toward zero of a / b, b > 0
TruncDiv(a, b) == IF a >= 0 THEN a \div b ELSE -((-a) \div b)

Range(s) == {s[k] : k \in DOMAIN s}

\* The bijections of 1..n, as functions.
Perms(n) == {p \in [1..n -> 1..n] : \A a, b \in 1..n : p[a] = p[b] => a = b}

Permute(s, p) == [k \in 1..Len(s) |-> s[p[k]]]

\* The rows of seq whose mask entry is TRUE, in order (numpy boolean indexing).
RECURSIVE MaskSelect(_, _)
MaskSelect(seq, mask) ==
    IF seq = <<>> THEN <<>>
    ELSE IF Head(mask) THEN <<Head(seq)>> \o MaskSelect(Tail(seq), Tail(mask))
         ELSE MaskSelect(Tail(seq), Tail(mask))

\* list.pop(j) for a 0-based index j.
Pop(seq, j) == SubSeq(seq, 1, j) \o SubSeq(seq, j + 2, Len(seq))

\* sorted(..., reverse=True) of a list of distinct integers.
RECURSIVE SortedDesc(_)
SortedDesc(seq) ==
    IF seq = <<>> THEN <<>>
    ELSE LET m == CHOOSE v \in Range(seq) : \A u \in Range(seq) : u <= v
         IN <<m>> \o SortedDesc(SelectSeq(seq, LAMBDA u : u # m))

\* ------------------------------------------------------------------- boxes

\* One row of a label array, in the column order of box_output_format.
Box(c, x1, x2, y1, y2) ==
    [class_id |-> c, xmin |-> x1, xmax |-> x2, ymin |-> y1, ymax |-> y2]

\* (xmax - xmin) * (ymax - ymin), the area used before and after limiting.
Area(b) == (b.xmax - b.xmin) * (b.ymax - b.ymin)

\* coords[coords < 0] = 0
LimitLow(v) == IF v < 0 THEN 0 ELSE v

\* A slip in the upper clamp: the extent itself rather than the last pixel.
LimitHighAtExtent(v, extent) == IF v >= extent THEN extent ELSE v

\* coords[coords >= extent] = extent - 1
LimitHigh(v, extent) == IF v >= extent THEN extent - 1 ELSE v

\* The survival test of clip-and-filter for one box; include_thresh is the
\* numerator over 2.  ">" when include_thresh == 0, ">=" otherwise.
KeepBox(before, after, include_thresh) ==
    IF include_thresh = 0
    THEN 2 * Area(after) > include_thresh * Area(before)
    ELSE 2 * Area(after) >= include_thresh * Area(before)

\* labels[after_area > / >= include_thresh * before_area]
FilterBoxes(before_limiting, limited, include_thresh) ==
    MaskSelect(limited,
               [k \in 1..Len(limited) |->
                   KeepBox(before_limiting[k], limited[k], include_thresh)])

\* The flip remap written as two assignments in sequence, the second reading
\* the already overwritten xmin.
FlipBoxesInPlace(boxes, img_width) ==
    [k \in 1..Len(boxes) |->
        [boxes[k] EXCEPT !.xmin = img_width - boxes[k].xmax,
                         !.xmax = img_width - (img_width - boxes[k].xmax)]]

\* The flip remap without the exchange of the two columns.
FlipBoxesWithoutSwap(boxes, img_width) ==
    [k \in 1..Len(boxes) |->
        [boxes[k] EXCEPT !.xmin = img_width - boxes[k].xmin,
                         !.xmax = img_width - boxes[k].xmax]]

\* batch_y[i][:, [xmin, xmax]] = img_width - batch_y[i][:, [xmax, xmin]]
FlipBoxes(boxes, img_width) ==
    [k \in 1..Len(boxes) |->
        [boxes[k] EXCEPT !.xmin = img_width - boxes[k].xmax,
                         !.xmax = img_width - boxes[k].xmin]]

\* The origin shift of one random-crop trial: a dimension in which the crop
\* fits (range >= 0) subtracts the crop origin, a dimension in which the
\* source is placed on a larger canvas (range < 0) adds the placement offset.
CropShift(boxes, crop_ymin, crop_xmin, y_range, x_range) ==
    [k \in 1..Len(boxes) |->
        [boxes[k] EXCEPT
            !.ymin = IF y_range >= 0 THEN @ - crop_ymin ELSE @ + crop_ymin,
            !.ymax = IF y_range >= 0 THEN @ - crop_ymin ELSE @ + crop_ymin,
            !.xmin = IF x_range >= 0 THEN @ - crop_xmin ELSE @ + crop_xmin,
            !.xmax = IF x_range >= 0 THEN @ - crop_xmin ELSE @ + crop_xmin]]

\* The limiting of one random-crop trial: only the dimensions that were
\* cropped are limited, to [0, crop extent - 1].
CropLimit(boxes, crop_h, crop_w, y_range, x_range) ==
    [k \in 1..Len(boxes) |->
        [boxes[k] EXCEPT
            !.ymin = IF y_range >= 0 THEN LimitHigh(LimitLow(@), crop_h) ELSE @,
            !.ymax = IF y_range >= 0 THEN LimitHigh(LimitLow(@), crop_h) ELSE @,
            !.xmin = IF x_range >= 0 THEN LimitHigh(LimitLow(@), crop_w) ELSE @,
            !.xmax = IF x_range >= 0 THEN LimitHigh(LimitLow(@), crop_w) ELSE @]]

\* patch_y of one random-crop trial.
RandomCropBoxes(boxes, crop_h, crop_w, crop_ymin, crop_xmin, y_range, x_range, limit_boxes, include_thresh) ==
    LET shifted == CropShift(boxes, crop_ymin, crop_xmin, y_range, x_range)
        limited == IF limit_boxes
                   THEN CropLimit(shifted, crop_h, crop_w, y_range, x_range)
                   ELSE shifted
    IN  IF limit_boxes /\ (y_range >= 0 \/ x_range >= 0)
        THEN FilterBoxes(shifted, limited, include_thresh)
        ELSE limited

\* The fixed crop (top, bottom, left, right) = crop; new_h and new_w are the
\* extents after the crop.
FixedCropBoxes(boxes, crop, new_h, new_w, limit_boxes, include_thresh) ==
    LET shifted ==
            [k \in 1..Len(boxes) |->
                [boxes[k] EXCEPT
                    !.ymin = IF crop[1] > 0 THEN @ - crop[1] ELSE @,
                    !.ymax = IF crop[1] > 0 THEN @ - crop[1] ELSE @,
                    !.xmin = IF crop[3] > 0 THEN @ - crop[3] ELSE @,
                    !.xmax = IF crop[3] > 0 THEN @ - crop[3] ELSE @]]
        LimY(v) == LET lo == IF crop[1] > 0 THEN LimitLow(v) ELSE v
                   IN  IF crop[2] > 0 THEN LimitHigh(lo, new_h) ELSE lo
        LimX(v) == LET lo == IF crop[3] > 0 THEN LimitLow(v) ELSE v
                   IN  IF crop[4] > 0 THEN LimitHigh(lo, new_w) ELSE lo
        limited ==
            [k \in 1..Len(shifted) |->
                [shifted[k] EXCEPT !.ymin = LimY(@), !.ymax = LimY(@),
                                   !.xmin = LimX(@), !.xmax = LimX(@)]]
    IN  IF limit_boxes THEN FilterBoxes(shifted, limited, include_thresh)
        ELSE shifted

\* resize = (new_w, new_h): x scaled by new_w / img_width, y by
\* new_h / img_height, truncated toward zero.
ResizeBoxes(boxes, resize, img_height, img_width) ==
    [k \in 1..Len(boxes) |->
        [boxes[k] EXCEPT
            !.xmin = TruncDiv(@ * resize[1], img_width),
            !.xmax = TruncDiv(@ * resize[1], img_width),
            !.ymin = TruncDiv(@ * resize[2], img_height),
            !.ymax = TruncDiv(@ * resize[2], img_height)]]

\* The box remap of the scale stage (lines 435-471) for the factor
\* scale_factor / 2.  rot_mat of cv2.getRotationMatrix2D((cols / 2, rows / 2),
\* 0, s) maps x to s * x + (1 - s) * cols / 2 and y likewise; astype(int)
\* truncates; the limiting (upper bound first) and the filter run only for a
\* factor above 1.
ScaleBoxes(boxes, scale_factor, img_height, img_width, limit_boxes, include_thresh) ==
    LET Warp(v, extent) ==
            TruncDiv(2 * scale_factor * v + (2 - scale_factor) * extent, 4)
        warped ==
            [k \in 1..Len(boxes) |->
                [boxes[k] EXCEPT !.xmin = Warp(@, img_width),
                                 !.xmax = Warp(@, img_width),
                                 !.ymin = Warp(@, img_height),
                                 !.ymax = Warp(@, img_height)]]
        limited ==
            [k \in 1..Len(warped) |->
                [warped[k] EXCEPT
                    !.xmin = LimitLow(LimitHigh(@, img_width)),
                    !.xmax = LimitLow(LimitHigh(@, img_width)),
                    !.ymin = LimitLow(LimitHigh(@, img_height)),
                    !.ymax = LimitLow(LimitHigh(@, img_height))]]
    IN  IF limit_boxes /\ scale_factor > 2
        THEN FilterBoxes(warped, limited, include_thresh)
        ELSE warped

\* ----------------------------------------------------------- batch cycling

\* A slice that starts one position early (a 1-based / 0-based slip).
WindowFromPrevious(seq, current, batch_size) ==
    SubSeq(seq, IF current > 0 THEN current ELSE 1,
           Min(current + batch_size, Len(seq)))

\* seq[current:current + batch_size], a Python slice: it stops at the end of
\* the list.
Window(seq, current, batch_size) ==
    SubSeq(seq, current + 1, Min(current + batch_size, Len(seq)))

\* Reshuffling as soon as the next window would run past the end.
PassEndsBeforeShortWindow(current, batch_size, count) ==
    current + batch_size > count

\* current >= len(self.filenames): the pass is over.
PassExhausted(current, batch_size, count) == current >= count

\* Two independent shuffles of the two lists.
ShuffleApart(names, labs) ==
    {<<Permute(names, p), Permute(labs, q)>> :
        p \in Perms(Len(names)), q \in Perms(Len(names))}

\* sklearn.utils.shuffle(filenames, labels): the possible results, one
\* permutation applied to both lists.
Shuffle(names, labs) ==
    {<<Permute(names, p), Permute(labs, p)>> : p \in Perms(Len(names))}

\* The pops applied in the order given.
RECURSIVE PopAllInOrder(_, _)
PopAllInOrder(seq, js) ==
    IF js = <<>> THEN seq ELSE PopAllInOrder(Pop(seq, Head(js)), Tail(js))

\* The pops applied in the order the items were marked (ascending), an index
\* that has run past the end being skipped.
RECURSIVE RemoveItemsAsMarked(_, _)
RemoveItemsAsMarked(seq, batch_items_to_remove) ==
    IF batch_items_to_remove = <<>> THEN seq
    ELSE RemoveItemsAsMarked(
             IF Head(batch_items_to_remove) < Len(seq)
             THEN Pop(seq, Head(batch_items_to_remove)) ELSE seq,
             Tail(batch_items_to_remove))

\* for j in sorted(batch_items_to_remove, reverse=True): seq.pop(j)
RemoveItems(seq, batch_items_to_remove) ==
    PopAllInOrder(seq, SortedDesc(batch_items_to_remove))

\* --------------------------------------------------------------- the state

VARIABLES
    cfg,                    \* the arguments of generate(), fixed for a stream
    truth,                  \* file -> the box set parsed for it (never written)
    unreadable,             \* the files that Image.open cannot decode
    filenames,              \* self.filenames
    labels,                 \* self.labels
    current,                \* the cursor
    pc,                     \* position of the generator
    error,                  \* the exception that ended the generator, or "none"
    batch_x,                \* batch__x: the decoded images of the window
    batch_y,                \* batch_y: their box sets
    this_filenames,         \* this_filenames
    batch_items_to_remove,  \* 0-based indices marked by failed random crops
    i,                      \* 0-based index of the image being transformed
    img_height,
    img_width,
    y_range,
    x_range,
    min_1_object_fulfilled,
    trial_counter,
    crop_ymin,              \* the origin drawn by the latest crop trial
    crop_xmin,
    out,                    \* the tuple handed to the caller by yield
    other,                  \* the frame of a second, suspended generator
    passFiles               \* history: files of the images yielded this pass

vars == <<cfg, truth, unreadable, filenames, labels, current, pc, error, batch_x, batch_y,
          this_filenames, batch_items_to_remove, i, img_height, img_width,
          y_range, x_range, min_1_object_fulfilled, trial_counter,
          crop_ymin, crop_xmin, out, other, passFiles>>

\* What no statement of the running generator writes: its arguments, the
\* parsed truth, the files on disk and the frame of the suspended generator.
dataVars == <<cfg, truth, unreadable, other>>

cycleVars == <<filenames, labels, current>>

cropVars == <<y_range, x_range, min_1_object_fulfilled, trial_counter,
              crop_ymin, crop_xmin>>

\* np.array(Image.open(filename)): the image of a file, pixels left out.
Decode(filename) == [file |-> filename, h |-> ImgH, w |-> ImgW]

FilesOf(images) == [k \in 1..Len(images) |-> images[k].file]

NoBatch == [mode |-> "none", images |-> <<>>, labels |-> <<>>, filenames |-> <<>>]

\* The values np.random.uniform(0, 1) is drawn from, as numerators over 2.
Draws == {0, 1}

\* p >= (1 - prob), both as numerators over 2.
GatePasses(p, prob) == p >= 2 - prob

\* The frame of a generator object whose body has not begun to run:
\* generate() was called, next() was not.
NotStarted ==
    [current |-> 0, pc |-> "start", error |-> "none", batch_x |-> <<>>,
     batch_y |-> <<>>, this_filenames |-> <<>>,
     batch_items_to_remove |-> <<>>, i |-> 0, img_height |-> 0,
     img_width |-> 0, y_range |-> 0, x_range |-> 0,
     min_1_object_fulfilled |-> FALSE, trial_counter |-> 0, crop_ymin |-> 0,
     crop_xmin |-> 0, out |-> NoBatch, passFiles |-> <<>>]

\* The frame of the running generator: its local variables and position.
Frame ==
    [current |-> current, pc |-> pc, error |-> error, batch_x |-> batch_x,
     batch_y |-> batch_y, this_filenames |-> this_filenames,
     batch_items_to_remove |-> batch_items_to_remove, i |-> i,
     img_height |-> img_height, img_width |-> img_width, y_range |-> y_range,
     x_range |-> x_range, min_1_object_fulfilled |-> min_1_object_fulfilled,
     trial_counter |-> trial_counter, crop_ymin |-> crop_ymin,
     crop_xmin |-> crop_xmin, out |-> out, passFiles |-> passFiles]

\* ------------------------------------------------------------- the actions

\* Lines 368-375: the shuffle before the first batch.
Start ==
    /\ pc = "start"
    /\ \E sh \in Shuffle(filenames, labels) :
          /\ filenames' = sh[1]
          /\ labels' = sh[2]
    /\ current' = 0
    /\ pc' = "loop"
    /\ passFiles' = <<>>
    /\ UNCHANGED <<dataVars, error, batch_x, batch_y, this_filenames,
                   batch_items_to_remove, i, img_height, img_width, cropVars,
                   out>>

\* A decode loop that swallows the failure and goes on with the file.
DecodeNeverFails(window) == FALSE

\* Image.open (line 387) raises for some file of the window.
DecodeFails(window) == \E k \in 1..Len(window) : window[k] \in unreadable

\* The position in the window of the first file that cannot be decoded.
FirstUnreadable(window) ==
    CHOOSE k \in 1..Len(window) :
        /\ window[k] \in unreadable
        /\ \A j \in 1..(k - 1) : window[j] \notin unreadable

\* Lines 377-398: one next-batch request up to the transform loop.  The
\* reshuffle, the decode loop over the window, the deep copy of the labels
\* and the cursor advance.  A file that cannot be decoded raises out of the
\* decode loop, before lines 389-398.
LoadBatch ==
    /\ pc \in {"loop", "yielded"}
    /\ LET exhausted == PassExhausted(current, cfg.batch_size, Len(filenames))
           cur == IF exhausted THEN 0 ELSE current
       IN  \E sh \in (IF exhausted THEN Shuffle(filenames, labels)
                                   ELSE {<<filenames, labels>>}) :
              LET window == Window(sh[1], cur, cfg.batch_size)
              IN  /\ filenames' = sh[1]
                  /\ labels' = sh[2]
                  /\ passFiles' = IF exhausted THEN <<>> ELSE passFiles
                  /\ out' = NoBatch
                  /\ IF DecodeFails(window)
                     THEN /\ batch_x' = [k \in 1..(FirstUnreadable(window) - 1)
                                            |-> Decode(window[k])]
                          /\ batch_y' = <<>>
                          /\ current' = cur
                          /\ pc' = "raised"
                          /\ error' = "OSError"
                          /\ UNCHANGED <<this_filenames,
                                         batch_items_to_remove, i>>
                     ELSE /\ this_filenames' = window
                          /\ batch_x' = [k \in 1..Len(window) |->
                                            Decode(window[k])]
                          /\ batch_y' = Window(sh[2], cur, cfg.batch_size)
                          /\ current' = cur + cfg.batch_size
                          /\ batch_items_to_remove' = <<>>
                          /\ i' = 0
                          /\ pc' = "image"
                          /\ UNCHANGED error
    /\ UNCHANGED <<dataVars, img_height, img_width, cropVars>>

\* Lines 402-409: the head of the per-image loop; equalize changes pixels only.
ImageStart ==
    /\ pc = "image"
    /\ IF i < Len(batch_x)
       THEN /\ img_height' = batch_x[i + 1].h
            /\ img_width' = batch_x[i + 1].w
            /\ pc' = "brightness"
       ELSE /\ pc' = "finish"
            /\ UNCHANGED <<img_height, img_width>>
    /\ UNCHANGED <<dataVars, cycleVars, error, batch_x, batch_y,
                   this_filenames, batch_items_to_remove, i, cropVars, out,
                   passFiles>>

\* A call of a parameter that shadows the module-level function of the same
\* name: the argument (a tuple or a float) is not callable.
RaiseTypeError ==
    /\ pc' = "raised"
    /\ error' = "TypeError"

\* Lines 411-414: `brightness` is the (min, max, prob) argument here.
BrightnessStage ==
    /\ pc = "brightness"
    /\ \/ /\ cfg.brightness = Off
          /\ pc' = "flip"
          /\ UNCHANGED error
       \/ /\ cfg.brightness # Off
          /\ \E p \in Draws :
                IF GatePasses(p, cfg.brightness)
                THEN RaiseTypeError
                ELSE pc' = "flip" /\ UNCHANGED error
    /\ UNCHANGED <<dataVars, cycleVars, batch_x, batch_y, this_filenames,
                   batch_items_to_remove, i, img_height, img_width, cropVars,
                   out, passFiles>>

\* Lines 420-425: `flip` is the probability argument here, so the call on
\* line 423 raises before the box remap of line 424.
FlipStage ==
    /\ pc = "flip"
    /\ \/ /\ cfg.flip = Off
          /\ pc' = "scale"
          /\ UNCHANGED error
       \/ /\ cfg.flip # Off
          /\ \E p \in Draws :
                IF GatePasses(p, cfg.flip)
                THEN RaiseTypeError
                ELSE pc' = "scale" /\ UNCHANGED error
    /\ UNCHANGED <<dataVars, cycleVars, batch_x, batch_y, this_filenames,
                   batch_items_to_remove, i, img_height, img_width, cropVars,
                   out, passFiles>>

\* Lines 427-471: `scale` is the (min, max, prob) argument here, so the call
\* on line 432 raises before the box remap.
ScaleStage ==
    /\ pc = "scale"
    /\ \/ /\ cfg.scale = Off
          /\ pc' = "random_crop"
          /\ UNCHANGED error
       \/ /\ cfg.scale # Off
          /\ \E p \in Draws :
                IF GatePasses(p, cfg.scale)
                THEN RaiseTypeError
                ELSE pc' = "random_crop" /\ UNCHANGED error
    /\ UNCHANGED <<dataVars, cycleVars, batch_x, batch_y, this_filenames,
                   batch_items_to_remove, i, img_height, img_width, cropVars,
                   out, passFiles>>

\* Lines 473-483: entry of the random_crop stage.
\* cfg.random_crop = <<height, width, min_1_object, max_trials>>.
RandomCropEnter ==
    /\ pc = "random_crop"
    /\ IF cfg.random_crop = None
       THEN /\ pc' = "crop"
            /\ UNCHANGED cropVars
       ELSE /\ y_range' = img_height - cfg.random_crop[1]
            /\ x_range' = img_width - cfg.random_crop[2]
            /\ min_1_object_fulfilled' = FALSE
            /\ trial_counter' = 0
            /\ pc' = "trial"
            /\ UNCHANGED <<crop_ymin, crop_xmin>>
    /\ UNCHANGED <<dataVars, cycleVars, error, batch_x, batch_y,
                   this_filenames, batch_items_to_remove, i, img_height,
                   img_width, out, passFiles>>

\* len(seq[start:start + length]) for a sequence of n items, start >= 0.
SliceLen(n, start, length) == Min(n, start + length) - Min(n, start)

\* The extent of the patch of one trial in one dimension: a slice of the
\* image where the crop fits (lines 507, 528, 553), the canvas of np.zeros
\* where it does not (lines 531, 555, 576).
PatchExtent(extent, range, origin, crop_extent) ==
    IF range >= 0 THEN SliceLen(extent, origin, crop_extent) ELSE crop_extent

\* A draw whose upper limit is one too high.
OriginsOneFurther(range) == 0..((IF range >= 0 THEN range ELSE -range) + 1)

\* np.random.randint(0, range + 1), or (0, -range + 1) for a negative range.
Origins(range) == 0..(IF range >= 0 THEN range ELSE -range)

\* patch_y bound to batch_y[i] itself: the in-place shift and limiting of a
\* trial write through to the running box set.
WorkedOnInPlace(boxes, worked) == worked

\* patch_y = np.copy(batch_y[i]) (lines 510, 539, 563, 585): what batch_y[i]
\* holds after the in-place shift and limiting of patch_y gave `worked`.
WorkedOnCopy(boxes, worked) == boxes

\* Lines 484-629: one iteration of the retry loop.
CropTrial ==
    /\ pc = "trial"
    /\ ~min_1_object_fulfilled
    /\ trial_counter < cfg.random_crop[4]
    /\ \E drawn_y \in Origins(y_range), drawn_x \in Origins(x_range) :
          LET rc == cfg.random_crop
              patch_x == [file |-> batch_x[i + 1].file,
                          h |-> PatchExtent(batch_x[i + 1].h, y_range, drawn_y,
                                            rc[1]),
                          w |-> PatchExtent(batch_x[i + 1].w, x_range, drawn_x,
                                            rc[2])]
              patch_y == RandomCropBoxes(batch_y[i + 1], rc[1], rc[2],
                                         drawn_y, drawn_x, y_range, x_range,
                                         cfg.limit_boxes, cfg.include_thresh)
              shifted == CropShift(batch_y[i + 1], drawn_y, drawn_x, y_range,
                                   x_range)
              worked == IF cfg.limit_boxes
                        THEN CropLimit(shifted, rc[1], rc[2], y_range, x_range)
                        ELSE shifted
              accept == /\ batch_x' = [batch_x EXCEPT ![i + 1] = patch_x]
                        /\ batch_y' = [batch_y EXCEPT ![i + 1] = patch_y]
                        /\ img_height' = rc[1]
                        /\ img_width' = rc[2]
          IN  /\ crop_ymin' = drawn_y
              /\ crop_xmin' = drawn_x
              /\ trial_counter' = trial_counter + 1
              /\ IF rc[3] = 0
                 THEN /\ accept
                      /\ pc' = "crop"
                      /\ UNCHANGED <<min_1_object_fulfilled,
                                     batch_items_to_remove>>
                 ELSE IF Len(patch_y) > 0
                 THEN /\ accept
                      /\ min_1_object_fulfilled' = TRUE
                      /\ pc' = "trial"
                      /\ UNCHANGED batch_items_to_remove
                 ELSE /\ batch_items_to_remove' =
                            IF /\ trial_counter' >= rc[4]
                               /\ i \notin Range(batch_items_to_remove)
                            THEN Append(batch_items_to_remove, i)
                            ELSE batch_items_to_remove
                      /\ pc' = "trial"
                      /\ batch_y' = [batch_y EXCEPT ![i + 1] =
                                        WorkedOnCopy(@, worked)]
                      /\ UNCHANGED <<batch_x, img_height, img_width,
                                     min_1_object_fulfilled>>
    /\ UNCHANGED <<dataVars, cycleVars, error, this_filenames, i, y_range,
                   x_range, out, passFiles>>

\* Line 484: the loop condition is false.
CropLoopExit ==
    /\ pc = "trial"
    /\ ~(~min_1_object_fulfilled /\ trial_counter < cfg.random_crop[4])
    /\ pc' = "crop"
    /\ UNCHANGED <<dataVars, cycleVars, error, batch_x, batch_y,
                   this_filenames, batch_items_to_remove, i, img_height,
                   img_width, cropVars, out, passFiles>>

\* The fixed crop without the update of img_height and img_width, so that
\* the resize remaps with the extents from before the crop.
FixedCropStageKeepingExtents ==
    /\ pc = "crop"
    /\ IF cfg.crop = None
       THEN UNCHANGED <<batch_x, batch_y>>
       ELSE LET new_h == img_height - (cfg.crop[1] + cfg.crop[2])
                new_w == img_width - (cfg.crop[3] + cfg.crop[4])
            IN  /\ batch_x' = [batch_x EXCEPT ![i + 1].h = new_h,
                                              ![i + 1].w = new_w]
                /\ batch_y' = [batch_y EXCEPT ![i + 1] =
                                  FixedCropBoxes(@, cfg.crop, new_h, new_w,
                                                 cfg.limit_boxes,
                                                 cfg.include_thresh)]
    /\ pc' = "resize"
    /\ UNCHANGED <<dataVars, cycleVars, error, this_filenames,
                   batch_items_to_remove, i, img_height, img_width, cropVars,
                   out, passFiles>>

\* Lines 631-683: the fixed crop, cfg.crop = <<top, bottom, left, right>>.
FixedCropStage ==
    /\ pc = "crop"
    /\ IF cfg.crop = None
       THEN UNCHANGED <<batch_x, batch_y, img_height, img_width>>
       ELSE /\ img_height' = img_height - (cfg.crop[1] + cfg.crop[2])
            /\ img_width' = img_width - (cfg.crop[3] + cfg.crop[4])
            /\ batch_x' = [batch_x EXCEPT ![i + 1].h = img_height',
                                          ![i + 1].w = img_width']
            /\ batch_y' = [batch_y EXCEPT ![i + 1] =
                              FixedCropBoxes(@, cfg.crop, img_height',
                                             img_width', cfg.limit_boxes,
                                             cfg.include_thresh)]
    /\ pc' = "resize"
    /\ UNCHANGED <<dataVars, cycleVars, error, this_filenames,
                   batch_items_to_remove, i, cropVars, out, passFiles>>

\* Lines 685-689: cfg.resize = <<width, height>>.
ResizeStage ==
    /\ pc = "resize"
    /\ IF cfg.resize = None
       THEN UNCHANGED <<batch_x, batch_y>>
       ELSE /\ batch_x' = [batch_x EXCEPT ![i + 1].h = cfg.resize[2],
                                          ![i + 1].w = cfg.resize[1]]
            /\ batch_y' = [batch_y EXCEPT ![i + 1] =
                              ResizeBoxes(@, cfg.resize, img_height, img_width)]
    /\ pc' = "gray"
    /\ UNCHANGED <<dataVars, cycleVars, error, this_filenames,
                   batch_items_to_remove, i, img_height, img_width, cropVars,
                   out, passFiles>>

\* Lines 691-692 and the loop increment: gray changes pixels only.
GrayStage ==
    /\ pc = "gray"
    /\ i' = i + 1
    /\ pc' = "image"
    /\ UNCHANGED <<dataVars, cycleVars, error, batch_x, batch_y,
                   this_filenames, batch_items_to_remove, img_height,
                   img_width, cropVars, out, passFiles>>

\* Lines 694-714: the removal of the marked items, the encoder check, the
\* yield.  y_true = encode_y(batch_y) is opaque and held as batch_y.
Finish ==
    /\ pc = "finish"
    /\ batch_x' = RemoveItems(batch_x, batch_items_to_remove)
    /\ batch_y' = RemoveItems(batch_y, batch_items_to_remove)
    /\ IF cfg.train /\ ~cfg.ssd_box_encoder
       THEN /\ pc' = "raised"
            /\ error' = "ValueError"
            /\ UNCHANGED <<out, passFiles>>
       ELSE /\ pc' = "yielded"
            /\ out' = [mode |-> IF cfg.train THEN "train" ELSE "infer",
                       images |-> batch_x',
                       labels |-> batch_y',
                       filenames |-> IF cfg.train THEN <<>> ELSE this_filenames]
            /\ passFiles' = passFiles \o FilesOf(batch_x')
            /\ UNCHANGED error
    /\ UNCHANGED <<dataVars, cycleVars, this_filenames, batch_items_to_remove,
                   i, img_height, img_width, cropVars>>

\* The caller turns to the other generator of the same BatchGenerator: the
\* running one is suspended at its yield (or has not begun, or has raised),
\* its frame is kept, and the next request goes to the other frame.  The
\* attributes self.filenames and self.labels belong to the object, not to a
\* frame.
Switch ==
    /\ pc \in {"start", "yielded", "raised"}
    /\ other.pc # "raised"
    /\ other' = Frame
    /\ current' = other.current
    /\ pc' = other.pc
    /\ error' = other.error
    /\ batch_x' = other.batch_x
    /\ batch_y' = other.batch_y
    /\ this_filenames' = other.this_filenames
    /\ batch_items_to_remove' = other.batch_items_to_remove
    /\ i' = other.i
    /\ img_height' = other.img_height
    /\ img_width' = other.img_width
    /\ y_range' = other.y_range
    /\ x_range' = other.x_range
    /\ min_1_object_fulfilled' = other.min_1_object_fulfilled
    /\ trial_counter' = other.trial_counter
    /\ crop_ymin' = other.crop_ymin
    /\ crop_xmin' = other.crop_xmin
    /\ out' = other.out
    /\ passFiles' = other.passFiles
    /\ UNCHANGED <<cfg, truth, unreadable, filenames, labels>>

Next ==
    \/ Start
    \/ LoadBatch
    \/ ImageStart
    \/ BrightnessStage
    \/ FlipStage
    \/ ScaleStage
    \/ RandomCropEnter
    \/ CropTrial
    \/ CropLoopExit
    \/ FixedCropStage
    \/ ResizeStage
    \/ GrayStage
    \/ Finish

\* ------------------------------------------------------- the initial states

\* The boxes that lie inside an image as decoded, class 0.
InsideBoxes ==
    {Box(0, x1, x2, y1, y2) :
        x1 \in 0..(ImgW - 1), x2 \in 0..(ImgW - 1),
        y1 \in 0..(ImgH - 1), y2 \in 0..(ImgH - 1)} \cap
    {b \in [class_id : {0}, xmin : 0..(ImgW - 1), xmax : 0..(ImgW - 1),
            ymin : 0..(ImgH - 1), ymax : 0..(ImgH - 1)] :
        b.xmin <= b.xmax /\ b.ymin <= b.ymax}

\* The box set of file k in the datasets of the cycling specification: one
\* box, none (a synthetic image without objects), two boxes, and so on.
DatasetLabel(k) ==
    IF k % 3 = 1 THEN <<Box(1, 0, Min(k, ImgW - 1), 1, ImgH - 1)>>
    ELSE IF k % 3 = 2 THEN <<>>
    ELSE <<Box(0, 1, 2, 0, 1), Box(1, ImgW - 1, ImgW - 1, 0, ImgH - 1)>>

\* The box sets of the single image of the geometry specification.
BoxLabelSets ==
    {<<>>} \cup {<<b>> : b \in InsideBoxes}
           \cup {<<Box(1, 0, ImgW - 1, 0, ImgH - 1), b>> :
                    b \in {c \in InsideBoxes : c.xmin = c.xmax /\ c.ymin = 0}}

\* random_crop tuples <<height, width, min_1_object, max_trials>>: a crop
\* smaller than the image with every trial limit, the three canvas shapes
\* (larger than the image in one or both dimensions), and a crop of the
\* size of the image.
RandomCrops ==
    {<<ImgH, ImgW, 0, 1>>} \cup
    {<<ImgH - 1, ImgW - 1, 1, t>> : t \in 0..MaxTrials} \cup
    {<<ImgH - 1, ImgW - 1, 0, t>> : t \in {0, MaxTrials}} \cup
    {<<h, w, m, 1>> : h \in {ImgH - 1, ImgH + 1}, w \in {ImgW - 1, ImgW + 1},
                      m \in {0, 1}}

\* crop tuples <<top, bottom, left, right>>.
FixedCrops == {<<1, 0, 0, 1>>, <<0, 1, 1, 0>>, <<1, 1, 1, 1>>, <<0, 0, 0, 0>>}

\* resize tuples <<width, height>>.
Resizes == {<<2, 5>>, <<7, 2>>}

\* A configuration whose fixed crop leaves at least one pixel row and column
\* of every image that can reach it.
CropLeavesPixels(c) ==
    c.crop = None \/
    LET h == IF c.random_crop = None THEN ImgH ELSE Min(ImgH, c.random_crop[1])
        w == IF c.random_crop = None THEN ImgW ELSE Min(ImgW, c.random_crop[2])
    IN  h - (c.crop[1] + c.crop[2]) >= 1 /\ w - (c.crop[3] + c.crop[4]) >= 1

\* The random crops that are combined with every fixed crop and resize: a
\* regular crop and the canvas shapes of lines 525 and 550.
ChainedRandomCrops ==
    {<<ImgH - 1, ImgW - 1, 1, 1>>, <<ImgH - 1, ImgW + 1, 1, 1>>,
     <<ImgH + 1, ImgW - 1, 0, 1>>}

\* Streams without photometric or scale/flip stages: every random crop on
\* its own, and every chain of the three geometry stages.
GeometryConfigs ==
    {c \in [batch_size : {1}, train : {FALSE}, ssd_box_encoder : {FALSE},
            brightness : {Off}, flip : {Off}, scale : {Off},
            random_crop : {None} \cup RandomCrops,
            crop : {None} \cup FixedCrops,
            resize : {None} \cup Resizes,
            limit_boxes : BOOLEAN, include_thresh : {0, 1, 2}] :
        /\ CropLeavesPixels(c)
        /\ ~c.limit_boxes => c.include_thresh = 1
        /\ \/ c.random_crop \in {None} \cup ChainedRandomCrops
           \/ c.crop = None /\ c.resize = None}

\* Streams with one gated stage enabled, in every mode.
GateConfigs ==
    {c \in [batch_size : {1}, train : BOOLEAN, ssd_box_encoder : BOOLEAN,
            brightness : {Off, 1, 2}, flip : {Off, 1, 2},
            scale : {Off, 1, 2},
            random_crop : {None}, crop : {None, <<1, 0, 1, 0>>},
            resize : {None},
            limit_boxes : {TRUE}, include_thresh : {1}] :
        /\ Cardinality({g \in {"brightness", "flip", "scale"} : c[g] # Off}) <= 1
        /\ c.ssd_box_encoder => c.train}

\* The configurations of the cycling specification: every mode, random crops
\* that can fail, and the other stages either all off or all on.
CycleConfigs ==
    {c \in [batch_size : 1..MaxBatch, train : BOOLEAN,
            ssd_box_encoder : BOOLEAN,
            brightness : {Off, 1}, flip : {Off, 1}, scale : {Off, 1},
            random_crop : {None, <<ImgH + 1, ImgW - 1, 0, 1>>} \cup
                          {<<ImgH - 1, ImgW - 1, 1, t>> : t \in 0..MaxTrials},
            crop : {None, <<0, 1, 1, 0>>},
            resize : {None, <<7, 2>>},
            limit_boxes : {TRUE}, include_thresh : {1}] :
        /\ c.ssd_box_encoder => c.train
        /\ c.brightness = c.flip /\ c.flip = c.scale
        /\ (c.crop = None) = (c.flip = Off)
        /\ (c.resize = None) = (c.flip = Off)
        /\ CropLeavesPixels(c)}

\* The state after construction (parse_csv) and the call of generate(); bad
\* holds the possible sets of files that cannot be decoded.
InitWith(configs, count, labelOf, bad) ==
    /\ cfg \in configs
    /\ truth = labelOf
    /\ filenames = [k \in 1..count |-> k]
    /\ labels = [k \in 1..count |-> labelOf[k]]
    /\ current = 0
    /\ pc = "start"
    /\ error = "none"
    /\ batch_x = <<>>
    /\ batch_y = <<>>
    /\ this_filenames = <<>>
    /\ batch_items_to_remove = <<>>
    /\ i = 0
    /\ img_height = 0
    /\ img_width = 0
    /\ y_range = 0
    /\ x_range = 0
    /\ min_1_object_fulfilled = FALSE
    /\ trial_counter = 0
    /\ crop_ymin = 0
    /\ crop_xmin = 0
    /\ other = NotStarted
    /\ unreadable \in bad
    /\ out = NoBatch
    /\ passFiles = <<>>

\* Datasets of 1..MaxData files, all of them readable or the last one not.
Init ==
    \E count \in 1..MaxData :
        InitWith(CycleConfigs, count, [k \in 1..count |-> DatasetLabel(k)],
                 {{}, {count}})

\* One image, every box set and geometry.
InitBox ==
    \E lab \in BoxLabelSets :
        InitWith(GeometryConfigs \cup GateConfigs, 1, [k \in 1..1 |-> lab],
                 {{}})

\* Two generators of one object with the same arguments: streams without
\* gated stages, with and without a random crop that can fail.
TwoConfigs ==
    {c \in CycleConfigs :
        /\ ~c.train
        /\ c.flip = Off
        /\ c.random_crop \in {None, <<ImgH - 1, ImgW - 1, 1, 1>>}}

InitTwo ==
    \E count \in 1..MaxData :
        InitWith(TwoConfigs, count, [k \in 1..count |-> DatasetLabel(k)],
                 {{}})

NextTwo == Next \/ Switch

Spec == Init /\ [][Next]_vars

SpecTwo == InitTwo /\ [][NextTwo]_vars

SpecBox == InitBox /\ [][Next]_vars

\* ------------------------------------------------- the flip remap on its own

\* The box remap of line 424 applied to a box set, twice in a row, for every
\* box set and a range of widths.
InitFlip ==
    /\ cfg \in {c \in GateConfigs : c.flip = 2 /\ ~c.train /\ c.crop = None}
    /\ \E lab \in BoxLabelSets :
          /\ truth = [k \in 1..1 |-> lab]
          /\ labels = <<lab>>
          /\ batch_y = <<lab>>
    /\ img_width \in 1..(ImgW + 2)
    /\ filenames = <<1>>
    /\ current = 0
    /\ pc = "flip0"
    /\ error = "none"
    /\ batch_x = <<Decode(1)>>
    /\ this_filenames = <<1>>
    /\ batch_items_to_remove = <<>>
    /\ i = 0
    /\ img_height = ImgH
    /\ y_range = 0
    /\ x_range = 0
    /\ min_1_object_fulfilled = FALSE
    /\ trial_counter = 0
    /\ crop_ymin = 0
    /\ crop_xmin = 0
    /\ other = NotStarted
    /\ unreadable = {}
    /\ out = NoBatch
    /\ passFiles = <<>>

ApplyFlip ==
    /\ pc \in {"flip0", "flip1"}
    /\ batch_y' = [batch_y EXCEPT ![i + 1] = FlipBoxes(@, img_width)]
    /\ pc' = IF pc = "flip0" THEN "flip1" ELSE "flip2"
    /\ UNCHANGED <<dataVars, cycleVars, error, batch_x, this_filenames,
                   batch_items_to_remove, i, img_height, img_width, cropVars,
                   out, passFiles>>

NextFlip == ApplyFlip

SpecFlip == InitFlip /\ [][NextFlip]_vars

\* ------------------------------------------------ the box remaps of all stages

\* The factors np.random.uniform(min, max) of scaling() is drawn from, as
\* numerators over 2: a shrink and two enlargements.
ScaleFactors == {1, 3, 4}

\* The box remap of lines 435-471 applied to a box set of an image as
\* decoded, for every box set, limiting mode and threshold.
InitScale ==
    /\ cfg \in {[c EXCEPT !.limit_boxes = l, !.include_thresh = t] :
                    c \in {d \in GateConfigs :
                              d.scale = 2 /\ ~d.train /\ d.crop = None},
                    l \in BOOLEAN, t \in {0, 1, 2}}
    /\ \E lab \in BoxLabelSets :
          /\ truth = [k \in 1..1 |-> lab]
          /\ labels = <<lab>>
          /\ batch_y = <<lab>>
    /\ unreadable = {}
    /\ filenames = <<1>>
    /\ current = 0
    /\ pc = "scale0"
    /\ error = "none"
    /\ batch_x = <<Decode(1)>>
    /\ this_filenames = <<1>>
    /\ batch_items_to_remove = <<>>
    /\ i = 0
    /\ img_height = ImgH
    /\ img_width = ImgW
    /\ y_range = 0
    /\ x_range = 0
    /\ min_1_object_fulfilled = FALSE
    /\ trial_counter = 0
    /\ crop_ymin = 0
    /\ crop_xmin = 0
    /\ other = NotStarted
    /\ out = NoBatch
    /\ passFiles = <<>>

ApplyScale ==
    /\ pc = "scale0"
    /\ \E scale_factor \in ScaleFactors :
          batch_y' = [batch_y EXCEPT ![i + 1] =
                         ScaleBoxes(@, scale_factor, img_height, img_width,
                                    cfg.limit_boxes, cfg.include_thresh)]
    /\ pc' = "scale1"
    /\ UNCHANGED <<dataVars, cycleVars, error, batch_x, this_filenames,
                   batch_items_to_remove, i, img_height, img_width, cropVars,
                   out, passFiles>>

\* The stages as generate() runs them, and the box remaps of flip and scale
\* on their own.
InitStages == InitBox \/ InitFlip \/ InitScale

NextStages == Next \/ ApplyFlip \/ ApplyScale

SpecStages == InitStages /\ [][NextStages]_vars

\* ---------------------------------------------------------------- the claims

\* get_n_samples()
n_samples == Len(filenames)

NoDuplicates(seq) == \A a, b \in 1..Len(seq) : seq[a] = seq[b] => a = b

\* The positions of the generator between the slicing of a window and the
\* removal of its marked items.
Processing ==
    {"image", "brightness", "flip", "scale", "random_crop", "trial", "crop",
     "resize", "gray", "finish"}

\* No configuration under which an image can be marked for removal.
NeverDrops == cfg.random_crop = None \/ cfg.random_crop[3] = 0

\* C1: pass completeness.  No file is yielded twice within a pass; without
\* removals the files yielded so far are the first positions of the pass's
\* permutation, a pass never has more than ceil(n_samples / batch_size) batches,
\* and after that many batches every file has been yielded exactly once.
C1_PassCompleteness ==
    /\ NoDuplicates(passFiles)
    /\ (pc = "yielded" /\ NeverDrops) =>
          /\ current \div cfg.batch_size <= CeilDiv(n_samples, cfg.batch_size)
          /\ passFiles = SubSeq(filenames, 1, Min(current, n_samples))
          /\ current \div cfg.batch_size = CeilDiv(n_samples, cfg.batch_size) =>
                /\ Len(passFiles) = n_samples
                /\ Range(passFiles) = DOMAIN truth

\* A pass whose last window was short has just been completed.
C1_Witness ==
    /\ pc = "yielded"
    /\ NeverDrops
    /\ n_samples > cfg.batch_size
    /\ n_samples % cfg.batch_size # 0
    /\ current \div cfg.batch_size = CeilDiv(n_samples, cfg.batch_size)
    /\ Len(passFiles) = n_samples

\* C2 as stated: every window holds exactly batch_size samples whenever
\* batch_size <= dataset size (the short trailing window is dropped).
C2_ShortWindowDropped ==
    (pc \in Processing \cup {"yielded"} /\ cfg.batch_size <= n_samples) =>
        Len(this_filenames) = cfg.batch_size

\* C2, amended: the cursor is reset (and a new pass begun) only when
\* cursor >= dataset size, so no sample of the old permutation is left
\* unyielded, and a window is the slice [cursor, cursor + batch_size) cut at
\* the end of the list: min(batch_size, dataset size - cursor) samples.
C2_ShortWindowYielded ==
    [][ /\ (passFiles # <<>> /\ passFiles' = <<>> /\ NeverDrops) =>
              Len(passFiles) = n_samples
        /\ pc' \in Processing \cup {"yielded"} =>
              LET cursor == current' - cfg.batch_size
              IN  /\ cursor >= 0 /\ cursor < n_samples
                  /\ this_filenames' =
                        SubSeq(filenames', cursor + 1, Min(current', n_samples))
                  /\ Len(this_filenames') =
                        Min(cfg.batch_size, n_samples - cursor) ]_vars

\* A short trailing window has been yielded.
C2_Witness ==
    /\ pc = "yielded"
    /\ cfg.batch_size <= n_samples
    /\ Len(this_filenames) < cfg.batch_size
    /\ Len(out.images) = Len(this_filenames)
    /\ Len(out.images) >= 1

BoxInside(b, img) ==
    /\ 0 <= b.xmin /\ b.xmin <= b.xmax /\ b.xmax < img.w
    /\ 0 <= b.ymin /\ b.ymin <= b.ymax /\ b.ymax < img.h

\* C3: box bounds.  In every batch yielded with limit_boxes, every surviving
\* box lies inside the image it is yielded with.
C3_BoxBounds ==
    (pc = "yielded" /\ cfg.limit_boxes) =>
        \A k \in 1..Len(out.images) :
            \A j \in 1..Len(out.labels[k]) :
                BoxInside(out.labels[k][j], out.images[k])

\* A box survived a random crop, a fixed crop and a resize, and touches the
\* last pixel column of the resized image.
C3_Witness ==
    /\ pc = "yielded"
    /\ cfg.limit_boxes
    /\ cfg.random_crop # None /\ cfg.crop # None /\ cfg.resize # None
    /\ Len(out.images) = 1
    /\ out.images[1].w = cfg.resize[1]
    /\ \E j \in 1..Len(out.labels[1]) :
          /\ out.labels[1][j] # truth[1][j]
          /\ out.labels[1][j].xmax > out.labels[1][j].xmin

\* C4 as stated: with min_1_object = 1 the retry loop ends after at most
\* max_trials trials, and for an image without boxes it ends with the image
\* marked for removal, for every max_trials >= 0.
C4_CropRetryTermination ==
    (pc = "crop" /\ cfg.random_crop # None /\ cfg.random_crop[3] = 1) =>
        /\ trial_counter <= cfg.random_crop[4]
        /\ truth[batch_x[i + 1].file] = <<>> =>
              i \in Range(batch_items_to_remove)

\* The items of seq at the positions that are not marked.
Kept(seq, marks) ==
    MaskSelect(seq, [k \in 1..Len(seq) |-> (k - 1) \notin Range(marks)])

\* C5: removal without replacement.  The window's images are its files in
\* order, an image enters its stages with its own box set, and the yield
\* holds exactly the images that were not marked, in order, each with the box
\* set at its own position.
C5_RemovalWithoutReplacement ==
    [][ /\ (pc = "image" /\ i < Len(batch_x)) =>
              /\ FilesOf(batch_x) = this_filenames
              /\ batch_y[i + 1] = truth[batch_x[i + 1].file]
        /\ (pc = "finish" /\ pc' = "yielded") =>
              /\ out'.images = Kept(batch_x, batch_items_to_remove)
              /\ out'.labels = Kept(batch_y, batch_items_to_remove)
              /\ Len(out'.images) =
                    Len(this_filenames) - Len(batch_items_to_remove)
              /\ Len(out'.labels) = Len(out'.images)
              /\ Len(out'.images) <= cfg.batch_size ]_vars

\* The first image of a window of two was removed and the second one kept.
C5_Witness ==
    /\ pc = "yielded"
    /\ Len(this_filenames) = 2
    /\ batch_items_to_remove = <<0>>
    /\ FilesOf(out.images) = <<this_filenames[2]>>

\* C6 as stated: in inference mode the filename list is as long as the image
\* list and names, position by position, the file of each image.
C6_FilenamesAligned ==
    (pc = "yielded" /\ out.mode = "infer") =>
        /\ Len(out.filenames) = Len(out.images)
        /\ Len(out.labels) = Len(out.images)
        /\ \A k \in 1..Len(out.images) : out.filenames[k] = out.images[k].file

\* C7 as stated: the missing encoder is reported before any window is
\* decoded and before the cursor moves.
C7_FailFast ==
    error = "ValueError" =>
        /\ this_filenames = <<>>
        /\ batch_x = <<>>
        /\ current = 0

\* C8: the dataset is never mutated.  Every file is still in the list once
\* and is paired with the box set that was parsed for it.
C8_DatasetNotMutated ==
    /\ Len(labels) = n_samples
    /\ Range(filenames) = DOMAIN truth
    /\ NoDuplicates(filenames)
    /\ \A k \in 1..n_samples : labels[k] = truth[filenames[k]]

\* The list has been shuffled out of its parsed order and a batch whose boxes
\* were changed by the stages has been yielded.
C8_Witness ==
    /\ pc = "yielded"
    /\ filenames # [k \in 1..n_samples |-> k]
    /\ \E k \in 1..Len(out.images) :
          /\ out.labels[k] # <<>>
          /\ out.labels[k] # truth[out.images[k].file]

\* C9: no batch is split across a reshuffle.  The two lists change only in
\* the first shuffle or in a request that finds cursor >= dataset size, and
\* while a batch is being made its images are the files at the positions
\* [cursor, cursor + n) of the list as it is now.
C9_NoSplitAcrossReshuffle ==
    [][ /\ (filenames' # filenames \/ labels' # labels) =>
              \/ pc = "start"
              \/ pc \in {"loop", "yielded"} /\ current >= n_samples
        /\ pc' \in Processing =>
              FilesOf(batch_x') =
                 SubSeq(filenames', current' - cfg.batch_size + 1,
                        Min(current', n_samples)) ]_vars

\* The first window of a pass over a list that is not in parsed order.
C9_Witness ==
    /\ pc = "image"
    /\ i = 0
    /\ current = cfg.batch_size
    /\ n_samples > cfg.batch_size
    /\ filenames # [k \in 1..n_samples |-> k]
    /\ FilesOf(batch_x) = SubSeq(filenames, 1, cfg.batch_size)

\* C10: flip round trip.  One remap gives xmin = width - old xmax and
\* xmax = width - old xmin with y and class unchanged; two remaps with the
\* same width give back every box exactly.
C10_FlipRoundTrip ==
    /\ pc = "flip1" =>
          \A k \in 1..Len(batch_y[1]) :
              batch_y[1][k] =
                  [truth[1][k] EXCEPT !.xmin = img_width - truth[1][k].xmax,
                                      !.xmax = img_width - truth[1][k].xmin]
    /\ pc = "flip2" => batch_y[1] = truth[1]

\* Two flips of a box set that a single flip changes.
C10_Witness ==
    /\ pc = "flip2"
    /\ Len(batch_y[1]) = 2
    /\ FlipBoxes(batch_y[1], img_width) # batch_y[1]

\* The random_crop stage has just accepted a trial whose patch went through
\* the filter of lines 593-606.
RandomCropFiltered ==
    /\ pc = "crop"
    /\ cfg.random_crop # None
    /\ trial_counter > 0
    /\ cfg.random_crop[3] = 0 \/ min_1_object_fulfilled
    /\ cfg.limit_boxes
    /\ y_range >= 0 \/ x_range >= 0

\* The fixed crop stage has just run the filter of lines 670-683.
FixedCropFiltered ==
    /\ pc = "resize"
    /\ cfg.crop # None
    /\ cfg.limit_boxes

\* C11 as stated: zero-area boxes are always dropped by clip-and-filter.  For
\* every include_thresh, no box that leaves the filter step of a crop stage
\* has area zero.
C11_ZeroAreaDropped ==
    (RandomCropFiltered \/ FixedCropFiltered) =>
        \A j \in 1..Len(batch_y[i + 1]) : Area(batch_y[i + 1][j]) # 0

\* The boxes of a box set that lie inside an image as they are, that is,
\* that need no limiting.
Unclamped(boxes, img) == SelectSeq(boxes, LAMBDA b : BoxInside(b, img))

\* The boxes in the coordinate system whose origin is moved by (dy, dx).
Moved(boxes, dy, dx) ==
    [k \in 1..Len(boxes) |->
        [boxes[k] EXCEPT !.ymin = @ + dy, !.ymax = @ + dy,
                         !.xmin = @ + dx, !.xmax = @ + dx]]

\* The move of the origin made by a trial that drew (oy, ox).
TrialMove(boxes, oy, ox) ==
    Moved(boxes, IF y_range >= 0 THEN -oy ELSE oy,
                 IF x_range >= 0 THEN -ox ELSE ox)

\* A crop trial is accepted in this step.
TrialAccepted ==
    /\ pc = "trial"
    /\ trial_counter' = trial_counter + 1
    /\ cfg.random_crop[3] = 0 \/ min_1_object_fulfilled'

\* The fixed crop is applied in this step.
FixedCropApplied == pc = "crop" /\ pc' = "resize" /\ cfg.crop # None

\* C12 as stated: with include_thresh = 1 a box survives clip-and-filter if
\* and only if clamping changed none of its coordinates.  The boxes that
\* leave a crop stage are exactly the moved boxes that already lie inside the
\* new image, unchanged.
C12_ThreshOneIffUnclamped ==
    [][ (cfg.limit_boxes /\ cfg.include_thresh = 2) =>
          /\ TrialAccepted =>
                batch_y'[i + 1] =
                    Unclamped(TrialMove(batch_y[i + 1], crop_ymin', crop_xmin'),
                              batch_x'[i + 1])
          /\ FixedCropApplied =>
                batch_y'[i + 1] =
                    Unclamped(Moved(batch_y[i + 1], -cfg.crop[1], -cfg.crop[3]),
                              batch_x'[i + 1]) ]_vars

\* The box covers at least one pixel column and one pixel row of the image.
Overlaps(b, img) ==
    /\ b.xmin <= img.w - 1 /\ b.xmax >= 0
    /\ b.ymin <= img.h - 1 /\ b.ymax >= 0

Overlapping(boxes, img) == SelectSeq(boxes, LAMBDA b : Overlaps(b, img))

\* C13 as stated: with include_thresh = 0 and limit_boxes, clip-and-filter
\* keeps all boxes except those that lie entirely outside the new image: as
\* many boxes leave a crop stage as moved boxes overlap the new image.
C13_ThreshZeroKeepsOverlapping ==
    [][ (cfg.limit_boxes /\ cfg.include_thresh = 0) =>
          /\ TrialAccepted =>
                Len(batch_y'[i + 1]) =
                    Len(Overlapping(TrialMove(batch_y[i + 1], crop_ymin',
                                              crop_xmin'),
                                    batch_x'[i + 1]))
          /\ FixedCropApplied =>
                Len(batch_y'[i + 1]) =
                    Len(Overlapping(Moved(batch_y[i + 1], -cfg.crop[1],
                                          -cfg.crop[3]),
                                    batch_x'[i + 1])) ]_vars

\* C14 as stated: with min_1_object = 0 the random_crop stage performs
\* exactly one trial, whatever max_trials is, accepts its patch (the image
\* leaves the stage with the extents of the crop) and never marks the image
\* for removal.
C14_OneTrialWithoutMinObject ==
    (pc = "crop" /\ cfg.random_crop # None /\ cfg.random_crop[3] = 0) =>
        /\ trial_counter = 1
        /\ batch_x[i + 1].h = cfg.random_crop[1]
        /\ batch_x[i + 1].w = cfg.random_crop[2]
        /\ img_height = cfg.random_crop[1]
        /\ img_width = cfg.random_crop[2]
        /\ i \notin Range(batch_items_to_remove)

\* The position of a stage in the order of the arguments of generate();
\* equalize is at the head of the per-image loop, the crop trials belong to
\* the random_crop stage, gray is last.
StageRank(stage) ==
    CASE stage = "image" -> 0
      [] stage = "brightness" -> 1
      [] stage = "flip" -> 2
      [] stage = "scale" -> 3
      [] stage \in {"random_crop", "trial"} -> 4
      [] stage = "crop" -> 5
      [] stage = "resize" -> 6
      [] stage = "gray" -> 7

Stages ==
    {"image", "brightness", "flip", "scale", "random_crop", "trial", "crop",
     "resize", "gray"}

\* The random_crop stage of the current image has accepted a patch.
CropAccepted ==
    /\ cfg.random_crop # None
    /\ trial_counter > 0
    /\ cfg.random_crop[3] = 0 \/ min_1_object_fulfilled

\* The extents an image has after both crops.
PostCropHeight ==
    (IF CropAccepted THEN cfg.random_crop[1] ELSE ImgH)
        - (IF cfg.crop = None THEN 0 ELSE cfg.crop[1] + cfg.crop[2])

PostCropWidth ==
    (IF CropAccepted THEN cfg.random_crop[2] ELSE ImgW)
        - (IF cfg.crop = None THEN 0 ELSE cfg.crop[3] + cfg.crop[4])

\* C15: fixed transform order.  Within one image the stages are entered in
\* the order equalize, brightness, flip, scale, random_crop, fixed crop,
\* resize, gray, none twice (only the trials of random_crop repeat); the
\* resize finds the image with its post-crop extents and remaps the boxes
\* with them; with resize enabled every yielded image has the target extents.
C15_FixedTransformOrder ==
    [][ /\ (pc \in Stages /\ pc' \in Stages /\ pc' # pc) =>
              \/ /\ i' = i
                 /\ StageRank(pc') >= StageRank(pc)
                 /\ StageRank(pc') = StageRank(pc) => pc = "random_crop"
              \/ pc = "gray" /\ pc' = "image" /\ i' = i + 1
        /\ (pc \in Stages /\ pc' = pc) => pc = "trial"
        /\ (pc = "resize" /\ pc' = "gray" /\ cfg.resize # None) =>
              /\ batch_x[i + 1].h = PostCropHeight
              /\ batch_x[i + 1].w = PostCropWidth
              /\ \A k \in 1..Len(batch_y[i + 1]) :
                    /\ batch_y'[i + 1][k].xmin = TruncDiv(
                          batch_y[i + 1][k].xmin * cfg.resize[1], PostCropWidth)
                    /\ batch_y'[i + 1][k].ymax = TruncDiv(
                          batch_y[i + 1][k].ymax * cfg.resize[2], PostCropHeight)
        /\ (pc' = "yielded" /\ cfg.resize # None) =>
              \A k \in 1..Len(out'.images) :
                  /\ out'.images[k].w = cfg.resize[1]
                  /\ out'.images[k].h = cfg.resize[2] ]_vars

\* A batch of two images has been yielded, each through an accepted random
\* crop, the fixed crop and the resize.
C15_Witness ==
    /\ pc = "yielded"
    /\ cfg.random_crop # None /\ cfg.crop # None /\ cfg.resize # None
    /\ batch_items_to_remove = <<>>
    /\ CropAccepted
    /\ Len(out.images) = 2
    /\ \A k \in 1..2 : out.images[k].w = cfg.resize[1]
    /\ \E k \in 1..2 :
          /\ out.labels[k] # <<>>
          /\ out.labels[k] # truth[out.images[k].file]

\* r is num / den cut toward zero, den > 0.
Truncated(r, num, den) ==
    IF num >= 0
    THEN r * den <= num /\ num < (r + 1) * den
    ELSE (r - 1) * den < num /\ num <= r * den

C17_StreamsIndependent ==
    /\ NoDuplicates(passFiles)
    /\ (pc = "yielded" /\ NeverDrops /\ current >= n_samples) =>
          /\ Len(passFiles) = n_samples
          /\ Range(passFiles) = DOMAIN truth
    /\ (pc = "image" /\ i < Len(batch_x)) =>
          /\ FilesOf(batch_x) = this_filenames
          /\ batch_y[i + 1] = truth[batch_x[i + 1].file]

\* C18: eager decode and no partial batch.  While the transforms of a batch
\* attempt run, every file of the window is decoded already; a decode
\* failure ends the attempt before any transform and with nothing yielded,
\* and no yield holds an image of a file that cannot be decoded.
C18_EagerDecodeNoPartialBatch ==
    /\ pc \in Processing =>
          /\ FilesOf(batch_x) = this_filenames
          /\ Range(this_filenames) \cap unreadable = {}
    /\ error = "OSError" =>
          /\ pc = "raised"
          /\ out = NoBatch
          /\ batch_y = <<>>
          /\ \A k \in 1..Len(batch_x) : batch_x[k] = Decode(batch_x[k].file)
    /\ pc = "yielded" => Range(FilesOf(out.images)) \cap unreadable = {}

\* The second file of a window could not be decoded after the first one had
\* been: the attempt ended with one decoded image and no yield.
C18_Witness ==
    /\ error = "OSError"
    /\ pc = "raised"
    /\ Len(batch_x) = 1
    /\ batch_x[1].file \notin unreadable
    /\ out = NoBatch

\* C19 as stated: enabling brightness, flip or scale does not make batch
\* generation fail.  No step of one of these stages ends the generator with
\* an exception.
C19_GatedStagesComplete ==
    [][ (pc = "brightness" \/ pc = "flip" \/ pc = "scale") =>
            (pc' # "raised" /\ error' = "none") ]_vars

\* The box with every coordinate brought into the image.
ClampInto(b, img) ==
    LET Into(v, extent) == IF v < 0 THEN 0 ELSE IF v >= extent THEN extent - 1
                                                 ELSE v
    IN  [b EXCEPT !.xmin = Into(@, img.w), !.xmax = Into(@, img.w),
                  !.ymin = Into(@, img.h), !.ymax = Into(@, img.h)]

\* C20: random-crop placement and remap.  In every trial and each dimension
\* the drawn origin o is within 0..|source extent - crop extent|; a crop that
\* is not larger than the source lies inside it and moves the boxes by -o, a
\* larger one holds the source at o and moves them by +o; clamping acts on
\* the moved boxes; the accepted patch has the extents (crop_h, crop_w).
C20_RandomCropPlacement ==
    [][ (pc = "trial" /\ trial_counter' = trial_counter + 1) =>
          LET src == batch_x[i + 1]
              crop_h == cfg.random_crop[1]
              crop_w == cfg.random_crop[2]
              oy == crop_ymin'
              ox == crop_xmin'
              moved == Moved(batch_y[i + 1],
                             IF crop_h <= src.h THEN -oy ELSE oy,
                             IF crop_w <= src.w THEN -ox ELSE ox)
          IN  /\ 0 <= oy /\ 0 <= ox
              /\ IF crop_h <= src.h THEN oy + crop_h <= src.h
                                    ELSE oy + src.h <= crop_h
              /\ IF crop_w <= src.w THEN ox + crop_w <= src.w
                                    ELSE ox + src.w <= crop_w
              /\ TrialAccepted =>
                    /\ batch_x'[i + 1].h = crop_h
                    /\ batch_x'[i + 1].w = crop_w
                    /\ ~cfg.limit_boxes => batch_y'[i + 1] = moved
                    /\ cfg.limit_boxes =>
                          \A k \in 1..Len(batch_y'[i + 1]) :
                              \E j \in 1..Len(moved) :
                                  batch_y'[i + 1][k] =
                                      ClampInto(moved[j], batch_x'[i + 1]) ]_vars

\* A patch taller and narrower than the image has been accepted: the image
\* was placed on the canvas below its top edge, the crop window taken right
\* of the left edge, and the first box moved down and left by the origin.
C20_Witness ==
    /\ pc = "crop"
    /\ CropAccepted
    /\ y_range < 0 /\ x_range > 0
    /\ crop_ymin > 0 /\ crop_xmin > 0
    /\ batch_x[i + 1].h = cfg.random_crop[1]
    /\ batch_x[i + 1].w = cfg.random_crop[2]
    /\ Len(batch_y[i + 1]) = 1
    /\ batch_y[i + 1][1].ymin = truth[1][1].ymin + crop_ymin
    /\ batch_y[i + 1][1].ymax = truth[1][1].ymax + crop_ymin
    /\ batch_y[i + 1][1].xmax = truth[1][1].xmax - crop_xmin

\* The running (image, boxes, height, width) of the image being transformed.
Running == <<batch_x[i + 1], batch_y[i + 1], img_height, img_width>>

\* C21: rejected crop trials leave no trace.  Every trial starts from the
\* image, box set and extents the random_crop stage was entered with; a
\* rejected trial, the entry and the exit of the retry loop change none of
\* them; the accepting trial sets them to the patch, its boxes and
\* (crop_h, crop_w); an image that leaves the stage marked for removal still
\* has its value from the entry.
C21_RejectedTrialsLeaveNoTrace ==
    [][ /\ (pc = "random_crop" \/ (pc = "trial" /\ ~TrialAccepted)) =>
              Running' = Running
        /\ (pc = "trial" /\ trial_counter' = trial_counter + 1) =>
              /\ batch_x[i + 1] = Decode(batch_x[i + 1].file)
              /\ batch_y[i + 1] = truth[batch_x[i + 1].file]
              /\ img_height = ImgH /\ img_width = ImgW
        /\ TrialAccepted =>
              /\ batch_x'[i + 1].h = cfg.random_crop[1]
              /\ batch_x'[i + 1].w = cfg.random_crop[2]
              /\ img_height' = cfg.random_crop[1]
              /\ img_width' = cfg.random_crop[2]
              /\ Len(batch_y'[i + 1]) <= Len(batch_y[i + 1])
              /\ cfg.random_crop[3] = 1 => Len(batch_y'[i + 1]) > 0
        /\ (pc' = "crop" /\ i' \in Range(batch_items_to_remove')) =>
              /\ batch_x'[i' + 1] = Decode(batch_x'[i' + 1].file)
              /\ batch_y'[i' + 1] = truth[batch_x'[i' + 1].file]
              /\ img_height' = ImgH /\ img_width' = ImgW ]_vars

\* An image with boxes has left the random_crop stage marked for removal
\* after MaxTrials rejected trials, the last of which drew an origin other
\* than (0, 0), with its boxes and extents as they were.
C21_Witness ==
    /\ pc = "crop"
    /\ i \in Range(batch_items_to_remove)
    /\ trial_counter = MaxTrials
    /\ trial_counter >= 2
    /\ crop_ymin > 0 /\ crop_xmin > 0
    /\ Len(batch_y[i + 1]) >= 1
    /\ batch_y[i + 1] = truth[batch_x[i + 1].file]
    /\ batch_x[i + 1].h = ImgH

Ordered(b) == b.xmin <= b.xmax /\ b.ymin <= b.ymax

\* C22: box ordering invariant.  The dataset's boxes have xmin <= xmax and
\* ymin <= ymax, and so has every box of the batch after each of flip,
\* scale, random_crop, fixed crop and resize, with or without clamping, and
\* every box that is yielded.
C22_BoxOrdering ==
    /\ \A k \in 1..Len(batch_y) :
          \A j \in 1..Len(batch_y[k]) : Ordered(batch_y[k][j])
    /\ \A k \in 1..Len(out.labels) :
          \A j \in 1..Len(out.labels[k]) : Ordered(out.labels[k][j])

\* A shrinking scale has brought the two sides of a box onto one column.
C22_Witness ==
    /\ pc = "scale1"
    /\ Len(truth[1]) = 1
    /\ Len(batch_y[1]) = 1
    /\ truth[1][1].xmin < truth[1][1].xmax
    /\ batch_y[1][1].xmin = batch_y[1][1].xmax
    /\ batch_y[1][1].ymin < batch_y[1][1].ymax

====
